---- MODULE Spec2Model ----
(***************************************************************************)
(* Model of examples/vulkan-hello/src/main.cc: the Vulkan sanity program.  *)
(* The program is one thread of control; every step is one statement (or   *)
(* one API call together with the branch that tests its result).  The      *)
(* Vulkan loader and driver are the environment: what they return is drawn *)
(* from small sets at the call that receives it.                           *)
(***************************************************************************)
EXTENDS Integers, Sequences, FiniteSets, TLC

\* ---------------------------------------------------------------- bounds
MaxDevices == 2

\* ------------------------------------------------------ program constants
BufSize == 64
VK_NULL_HANDLE == 0
VK_SUCCESS == 0
VK_INCOMPLETE == 5
VK_ERROR_OUT_OF_HOST_MEMORY == 0 - 1
VK_ERROR_INITIALIZATION_FAILED == 0 - 3
ExitFailure == 1
ExitSuccess == 0
NotExited == 0 - 1
ExitSigsegv == 139
InstanceHandle == 1

VK_MAKE_VERSION(major, minor, patch) == major * (2 ^ 22) + minor * (2 ^ 12) + patch
VK_VERSION_MAJOR(v) == v \div (2 ^ 22)
VK_VERSION_MINOR(v) == (v \div (2 ^ 12)) % (2 ^ 10)
VK_VERSION_PATCH(v) == v % (2 ^ 12)
VK_API_VERSION_1_0 == VK_MAKE_VERSION(1, 0, 0)
VK_API_VERSION_1_1 == VK_MAKE_VERSION(1, 1, 0)

Digits == <<"0", "1", "2", "3", "4", "5", "6", "7", "8", "9", "a", "b", "c", "d", "e", "f">>

\* ------------------------------------------------------------ environment
\* Status codes a failing driver call may return.
DriverErrors == {VK_ERROR_OUT_OF_HOST_MEMORY, VK_ERROR_INITIALIZATION_FAILED}
DriverResults == {VK_SUCCESS, VK_INCOMPLETE} \cup DriverErrors
\* Versions a loader that exports vkEnumerateInstanceVersion may report.
LoaderVersions == {VK_MAKE_VERSION(1, 1, 0), VK_MAKE_VERSION(1, 2, 198), VK_MAKE_VERSION(1, 3, 280)}
\* "the entry point returned without writing *pApiVersion"
NoWrite == 0 - 1
DeviceHandles == 1..MaxDevices
\* The driver's device list at the time of a call: distinct handles, in the
\* driver's order.
DeviceLists == UNION {{s \in [1..n -> DeviceHandles] : \A a, b \in 1..n : s[a] = s[b] => a = b} : n \in 0..MaxDevices}
\* Static hardware metadata of a physical device.
DeviceProps(h) == [deviceName |-> <<"G", "P", "U", Digits[h + 1]>>, apiVersion |-> VK_MAKE_VERSION(1, h % 4, 100 * h + 31), driverVersion |-> 4096 * h + 255, deviceID |-> 16 * h + 9]
\* VkPhysicalDeviceProperties device_props{} : value-initialised.
ZeroProps == [deviceName |-> <<>>, apiVersion |-> 0, driverVersion |-> 0, deviceID |-> 0]

\* -------------------------------------------------------------- formatting
RECURSIVE FormatBase(_, _)
FormatBase(n, base) == IF n < base THEN <<Digits[n + 1]>> ELSE FormatBase(n \div base, base) \o <<Digits[(n % base) + 1]>>

RECURSIVE ZeroPad(_, _)
ZeroPad(s, width) == IF Len(s) >= width THEN s ELSE ZeroPad(<<"0">> \o s, width)

\* printf conversions %u, %d, %x, %04x
FormatU(n) == FormatBase(n, 10)
FormatD(n) == IF n < 0 THEN <<"-">> \o FormatBase(0 - n, 10) ELSE FormatBase(n, 10)
FormatX(n) == FormatBase(n, 16)
FormatX04(n) == ZeroPad(FormatBase(n, 16), 4)

\* snprintf(buf, size, ...) keeps at most size - 1 characters.
Snprintf(size, s) == IF Len(s) <= size - 1 THEN s ELSE SubSeq(s, 1, size - 1)

\* Variant: the minor and patch arguments of the format are exchanged.
ApiVersionToStr_SwappedFields(v) == Snprintf(BufSize, FormatU(VK_VERSION_MAJOR(v)) \o <<".">> \o FormatU(VK_VERSION_PATCH(v)) \o <<".">> \o FormatU(VK_VERSION_MINOR(v)))

\* The text ApiVersionToStr leaves in its static buffer.
ApiVersionToStr(v) == Snprintf(BufSize, FormatU(VK_VERSION_MAJOR(v)) \o <<".">> \o FormatU(VK_VERSION_MINOR(v)) \o <<".">> \o FormatU(VK_VERSION_PATCH(v)))

\* ------------------------------------------------------------------ state
VARIABLES
  pc,                             \* position of main
  enumerate_instance_version_fn,  \* TRUE iff the entry point resolved
  loader_version,
  buf,                            \* static char buf[64] of ApiVersionToStr
  app_info_apiVersion,            \* app_info.apiVersion (0 before line 33)
  instance,
  vk_result,
  physical_device_count,
  physical_devices,               \* std::vector<VkPhysicalDevice>
  i,
  device_props,
  out,                            \* standard output, one record per line
  err,                            \* standard error, one record per line
  exit_code,
  ctx,                            \* driver side: lifecycle of the instance
  calls,                          \* history: the API calls made, in order
  populated,                      \* history: handles the fill call wrote
  passed,                         \* history: last value given to ApiVersionToStr
  printed                         \* history: the value behind each version printed

vars == <<pc, enumerate_instance_version_fn, loader_version, buf, app_info_apiVersion, instance, vk_result, physical_device_count, physical_devices, i, device_props, out, err, exit_code, ctx, calls, populated, passed, printed>>

Call(fn, handle, bufsize, cnt, ret) == [fn |-> fn, handle |-> handle, bufsize |-> bufsize, cnt |-> cnt, ret |-> ret, live |-> ctx = "ContextLive"]

Init ==
  /\ pc = "L17"
  /\ enumerate_instance_version_fn = FALSE
  /\ loader_version = VK_API_VERSION_1_0
  /\ buf = <<>>
  /\ app_info_apiVersion = 0
  /\ instance = VK_NULL_HANDLE
  /\ vk_result = VK_SUCCESS
  /\ physical_device_count = 0
  /\ physical_devices = <<>>
  /\ i = 0
  /\ device_props = ZeroProps
  /\ out = <<>>
  /\ err = <<>>
  /\ exit_code = NotExited
  /\ ctx = "Uninitialized"
  /\ calls = <<>>
  /\ populated = {}
  /\ passed = 0
  /\ printed = <<>>

\* lines 15-18: loader_version = 1.0.0; resolve vkEnumerateInstanceVersion.
GetInstanceProcAddr ==
  /\ pc = "L17"
  /\ \E resolved \in BOOLEAN :
       /\ enumerate_instance_version_fn' = resolved
       /\ calls' = Append(calls, Call("vkGetInstanceProcAddr", VK_NULL_HANDLE, 0, 0, IF resolved THEN 1 ELSE 0))
  /\ loader_version' = VK_API_VERSION_1_0
  /\ pc' = "L20"
  /\ UNCHANGED <<buf, app_info_apiVersion, instance, vk_result, physical_device_count, physical_devices, i, device_props, out, err, exit_code, ctx, populated, passed, printed>>

\* Variant: the entry point is invoked without testing that it resolved.
QueryLoaderVersion_Unconditional ==
  /\ pc = "L20"
  /\ \E w \in LoaderVersions \cup {NoWrite} :
       /\ loader_version' = IF w = NoWrite THEN loader_version ELSE w
       /\ calls' = Append(calls, Call("vkEnumerateInstanceVersion", VK_NULL_HANDLE, 0, w, IF w = NoWrite THEN VK_ERROR_OUT_OF_HOST_MEMORY ELSE VK_SUCCESS))
  /\ pc' = "L24"
  /\ UNCHANGED <<enumerate_instance_version_fn, buf, app_info_apiVersion, instance, vk_result, physical_device_count, physical_devices, i, device_props, out, err, exit_code, ctx, populated, passed, printed>>

\* lines 20-22: call the entry point if it resolved; its status is discarded.
QueryLoaderVersion ==
  /\ pc = "L20"
  /\ IF enumerate_instance_version_fn
       THEN \E w \in LoaderVersions \cup {NoWrite} :
              /\ loader_version' = IF w = NoWrite THEN loader_version ELSE w
              /\ calls' = Append(calls, Call("vkEnumerateInstanceVersion", VK_NULL_HANDLE, 0, w, IF w = NoWrite THEN VK_ERROR_OUT_OF_HOST_MEMORY ELSE VK_SUCCESS))
       ELSE UNCHANGED <<loader_version, calls>>
  /\ pc' = "L24"
  /\ UNCHANGED <<enumerate_instance_version_fn, buf, app_info_apiVersion, instance, vk_result, physical_device_count, physical_devices, i, device_props, out, err, exit_code, ctx, populated, passed, printed>>

\* line 24, argument: ApiVersionToStr(loader_version) fills the static buffer.
BannerFormat ==
  /\ pc = "L24"
  /\ buf' = ApiVersionToStr(loader_version)
  /\ passed' = loader_version
  /\ pc' = "L24p"
  /\ UNCHANGED <<enumerate_instance_version_fn, loader_version, app_info_apiVersion, instance, vk_result, physical_device_count, physical_devices, i, device_props, out, err, exit_code, ctx, calls, populated, printed>>

\* line 24: printf reads the buffer the argument points to.
BannerPrint ==
  /\ pc = "L24p"
  /\ out' = Append(out, [fmt |-> "[vk] Loader supports: Vulkan %s", args |-> <<buf>>])
  /\ printed' = Append(printed, passed)
  /\ pc' = "L27"
  /\ UNCHANGED <<enumerate_instance_version_fn, loader_version, buf, app_info_apiVersion, instance, vk_result, physical_device_count, physical_devices, i, device_props, err, exit_code, ctx, calls, populated, passed>>

\* Variant: the failure branch reports the status but does not return.
CreateInstance_NoReturn ==
  /\ pc = "L27"
  /\ app_info_apiVersion' = VK_API_VERSION_1_1
  /\ \E res \in {VK_SUCCESS} \cup DriverErrors :
       /\ vk_result' = res
       /\ calls' = Append(calls, Call("vkCreateInstance", VK_NULL_HANDLE, 0, VK_API_VERSION_1_1, res))
       /\ IF res = VK_SUCCESS
            THEN /\ instance' = InstanceHandle
                 /\ ctx' = "ContextLive"
                 /\ UNCHANGED err
            ELSE /\ err' = Append(err, [fmt |-> "[vk] vkCreateInstance failed: %d", args |-> <<FormatD(res)>>])
                 /\ UNCHANGED <<instance, ctx>>
  /\ pc' = "L46"
  /\ UNCHANGED <<enumerate_instance_version_fn, loader_version, buf, physical_device_count, physical_devices, i, device_props, out, exit_code, populated, passed, printed>>

\* Variant: a failed creation is tried once more, asking for version 1.0.
CreateInstance_Fallback ==
  /\ pc = "L27"
  /\ \E res \in {VK_SUCCESS} \cup DriverErrors, res2 \in {VK_SUCCESS} \cup DriverErrors :
       LET first == Call("vkCreateInstance", VK_NULL_HANDLE, 0, VK_API_VERSION_1_1, res)
           second == Call("vkCreateInstance", VK_NULL_HANDLE, 0, VK_API_VERSION_1_0, res2)
           final == IF res = VK_SUCCESS THEN res ELSE res2
       IN /\ vk_result' = final
          /\ app_info_apiVersion' = IF res = VK_SUCCESS THEN VK_API_VERSION_1_1 ELSE VK_API_VERSION_1_0
          /\ calls' = IF res = VK_SUCCESS THEN Append(calls, first) ELSE Append(Append(calls, first), second)
          /\ IF final = VK_SUCCESS
               THEN /\ instance' = InstanceHandle
                    /\ ctx' = "ContextLive"
                    /\ pc' = "L46"
                    /\ UNCHANGED <<err, exit_code>>
               ELSE /\ err' = Append(err, [fmt |-> "[vk] vkCreateInstance failed: %d", args |-> <<FormatD(final)>>])
                    /\ exit_code' = ExitFailure
                    /\ pc' = "exited"
                    /\ UNCHANGED <<instance, ctx>>
  /\ UNCHANGED <<enumerate_instance_version_fn, loader_version, buf, physical_device_count, physical_devices, i, device_props, out, populated, passed, printed>>

\* lines 27-44: fill app_info, vkCreateInstance, leave with 1 on failure.
CreateInstance ==
  /\ pc = "L27"
  /\ app_info_apiVersion' = VK_API_VERSION_1_1
  /\ \E res \in {VK_SUCCESS} \cup DriverErrors :
       /\ vk_result' = res
       /\ calls' = Append(calls, Call("vkCreateInstance", VK_NULL_HANDLE, 0, VK_API_VERSION_1_1, res))
       /\ IF res = VK_SUCCESS
            THEN /\ instance' = InstanceHandle
                 /\ ctx' = "ContextLive"
                 /\ pc' = "L46"
                 /\ UNCHANGED <<err, exit_code>>
            ELSE /\ err' = Append(err, [fmt |-> "[vk] vkCreateInstance failed: %d", args |-> <<FormatD(res)>>])
                 /\ exit_code' = ExitFailure
                 /\ pc' = "exited"
                 /\ UNCHANGED <<instance, ctx>>
  /\ UNCHANGED <<enumerate_instance_version_fn, loader_version, buf, physical_device_count, physical_devices, i, device_props, out, populated, passed, printed>>

\* lines 46-47: first vkEnumeratePhysicalDevices call, null destination.
EnumerateCount ==
  /\ pc = "L46"
  /\ \E res \in DriverResults, n \in 0..MaxDevices :
       /\ vk_result' = res
       /\ physical_device_count' = n
       /\ calls' = Append(calls, Call("vkEnumeratePhysicalDevices", instance, 0 - 1, n, res))
  /\ pc' = "L48"
  /\ UNCHANGED <<enumerate_instance_version_fn, loader_version, buf, app_info_apiVersion, instance, physical_devices, i, device_props, out, err, exit_code, ctx, populated, passed, printed>>

\* What vkDestroyInstance does to the instance: nothing for a null handle.
DestroyEffect(handle) == IF handle # VK_NULL_HANDLE /\ ctx = "ContextLive" THEN "Terminated" ELSE ctx

\* Variant: the early return of the enumeration failure skips the destroy.
NoPhysicalDevices_NoDestroy ==
  /\ pc = "L48"
  /\ vk_result # VK_SUCCESS \/ physical_device_count = 0
  /\ err' = Append(err, [fmt |-> "[vk] No physical devices found (res=%d, count=%u)", args |-> <<FormatD(vk_result), FormatU(physical_device_count)>>])
  /\ exit_code' = ExitFailure
  /\ pc' = "exited"
  /\ UNCHANGED <<enumerate_instance_version_fn, loader_version, buf, app_info_apiVersion, instance, vk_result, physical_device_count, physical_devices, i, device_props, out, ctx, calls, populated, passed, printed>>

\* lines 48-53: failure status or no device: report, destroy, leave with 1.
NoPhysicalDevices ==
  /\ pc = "L48"
  /\ vk_result # VK_SUCCESS \/ physical_device_count = 0
  /\ err' = Append(err, [fmt |-> "[vk] No physical devices found (res=%d, count=%u)", args |-> <<FormatD(vk_result), FormatU(physical_device_count)>>])
  /\ calls' = Append(calls, Call("vkDestroyInstance", instance, 0, 0, VK_SUCCESS))
  /\ ctx' = DestroyEffect(instance)
  /\ exit_code' = ExitFailure
  /\ pc' = "exited"
  /\ UNCHANGED <<enumerate_instance_version_fn, loader_version, buf, app_info_apiVersion, instance, vk_result, physical_device_count, physical_devices, i, device_props, out, populated, passed, printed>>

\* Variant: the buffer has a fixed capacity instead of the reported count.
EnumerateFill_FixedBuffer ==
  /\ pc = "L48"
  /\ ~(vk_result # VK_SUCCESS \/ physical_device_count = 0)
  /\ \E devs \in DeviceLists, res \in {VK_SUCCESS} \cup DriverErrors, c \in {0, physical_device_count} :
       LET size == MaxDevices
           m == IF Len(devs) <= size THEN Len(devs) ELSE size
       IN IF res = VK_SUCCESS
            THEN /\ physical_devices' = [k \in 1..size |-> IF k <= m THEN devs[k] ELSE VK_NULL_HANDLE]
                 /\ physical_device_count' = m
                 /\ populated' = {devs[k] : k \in 1..m}
                 /\ calls' = Append(calls, Call("vkEnumeratePhysicalDevices", instance, size, m, IF Len(devs) > size THEN VK_INCOMPLETE ELSE VK_SUCCESS))
            ELSE /\ physical_devices' = [k \in 1..size |-> VK_NULL_HANDLE]
                 /\ physical_device_count' = c
                 /\ populated' = {}
                 /\ calls' = Append(calls, Call("vkEnumeratePhysicalDevices", instance, size, c, res))
  /\ pc' = "L58"
  /\ UNCHANGED <<enumerate_instance_version_fn, loader_version, buf, app_info_apiVersion, instance, vk_result, i, device_props, out, err, exit_code, ctx, passed, printed>>

\* lines 55-56: vector of physical_device_count null handles, then the second
\* vkEnumeratePhysicalDevices call.  The driver writes at most that many
\* handles and overwrites the count with the number written; a failing call
\* writes no handle and leaves the count or clears it.  The status is discarded.
EnumerateFill ==
  /\ pc = "L48"
  /\ ~(vk_result # VK_SUCCESS \/ physical_device_count = 0)
  /\ \E devs \in DeviceLists, res \in {VK_SUCCESS} \cup DriverErrors, c \in {0, physical_device_count} :
       LET size == physical_device_count
           m == IF Len(devs) <= size THEN Len(devs) ELSE size
       IN IF res = VK_SUCCESS
            THEN /\ physical_devices' = [k \in 1..size |-> IF k <= m THEN devs[k] ELSE VK_NULL_HANDLE]
                 /\ physical_device_count' = m
                 /\ populated' = {devs[k] : k \in 1..m}
                 /\ calls' = Append(calls, Call("vkEnumeratePhysicalDevices", instance, size, m, IF Len(devs) > size THEN VK_INCOMPLETE ELSE VK_SUCCESS))
            ELSE /\ physical_devices' = [k \in 1..size |-> VK_NULL_HANDLE]
                 /\ physical_device_count' = c
                 /\ populated' = {}
                 /\ calls' = Append(calls, Call("vkEnumeratePhysicalDevices", instance, size, c, res))
  /\ pc' = "L58"
  /\ UNCHANGED <<enumerate_instance_version_fn, loader_version, buf, app_info_apiVersion, instance, vk_result, i, device_props, out, err, exit_code, ctx, passed, printed>>

\* line 58, and the loop initialisation of line 60.
PrintFound ==
  /\ pc = "L58"
  /\ out' = Append(out, [fmt |-> "[vk] Found %u physical device(s)", args |-> <<FormatU(physical_device_count)>>])
  /\ i' = 0
  /\ pc' = "L60"
  /\ UNCHANGED <<enumerate_instance_version_fn, loader_version, buf, app_info_apiVersion, instance, vk_result, physical_device_count, physical_devices, device_props, err, exit_code, ctx, calls, populated, passed, printed>>

\* lines 60-63: loop test passes; vkGetPhysicalDeviceProperties on
\* physical_devices[i].  A null handle is invalid usage of the API: the call
\* either faults or returns without writing the record.
GetPhysicalDeviceProperties ==
  /\ pc = "L60"
  /\ i < physical_device_count
  /\ LET h == physical_devices[i + 1]
     IN /\ calls' = Append(calls, Call("vkGetPhysicalDeviceProperties", h, 0, i, VK_SUCCESS))
        /\ IF h # VK_NULL_HANDLE
             THEN /\ device_props' = DeviceProps(h)
                  /\ pc' = "L65"
                  /\ UNCHANGED exit_code
             ELSE \E fault \in BOOLEAN :
                    /\ device_props' = ZeroProps
                    /\ pc' = IF fault THEN "crashed" ELSE "L65"
                    /\ exit_code' = IF fault THEN ExitSigsegv ELSE exit_code
  /\ UNCHANGED <<enumerate_instance_version_fn, loader_version, buf, app_info_apiVersion, instance, vk_result, physical_device_count, physical_devices, i, out, err, ctx, populated, passed, printed>>

\* line 66, argument: ApiVersionToStr(device_props.apiVersion).
DeviceFormat ==
  /\ pc = "L65"
  /\ buf' = ApiVersionToStr(device_props.apiVersion)
  /\ passed' = device_props.apiVersion
  /\ pc' = "L65p"
  /\ UNCHANGED <<enumerate_instance_version_fn, loader_version, app_info_apiVersion, instance, vk_result, physical_device_count, physical_devices, i, device_props, out, err, exit_code, ctx, calls, populated, printed>>

\* lines 65-67: printf of the device line; then ++i of line 60.
DevicePrint ==
  /\ pc = "L65p"
  /\ out' = Append(out, [fmt |-> "  - %s | api %s | driver 0x%x | deviceID 0x%04x", args |-> <<device_props.deviceName, buf, FormatX(device_props.driverVersion), FormatX04(device_props.deviceID)>>])
  /\ printed' = Append(printed, passed)
  /\ i' = i + 1
  /\ pc' = "L60"
  /\ UNCHANGED <<enumerate_instance_version_fn, loader_version, buf, app_info_apiVersion, instance, vk_result, physical_device_count, physical_devices, device_props, err, exit_code, ctx, calls, populated, passed>>

\* line 70: loop test fails; vkDestroyInstance.
DestroyInstance ==
  /\ pc = "L60"
  /\ ~(i < physical_device_count)
  /\ calls' = Append(calls, Call("vkDestroyInstance", instance, 0, 0, VK_SUCCESS))
  /\ ctx' = DestroyEffect(instance)
  /\ pc' = "L71"
  /\ UNCHANGED <<enumerate_instance_version_fn, loader_version, buf, app_info_apiVersion, instance, vk_result, physical_device_count, physical_devices, i, device_props, out, err, exit_code, populated, passed, printed>>

\* lines 71-72: puts, return 0.
SanityOk ==
  /\ pc = "L71"
  /\ out' = Append(out, [fmt |-> "[vk] Sanity OK.", args |-> <<>>])
  /\ exit_code' = ExitSuccess
  /\ pc' = "exited"
  /\ UNCHANGED <<enumerate_instance_version_fn, loader_version, buf, app_info_apiVersion, instance, vk_result, physical_device_count, physical_devices, i, device_props, err, ctx, calls, populated, passed, printed>>

Next ==
  \/ GetInstanceProcAddr
  \/ QueryLoaderVersion
  \/ BannerFormat
  \/ BannerPrint
  \/ CreateInstance
  \/ EnumerateCount
  \/ NoPhysicalDevices
  \/ EnumerateFill
  \/ PrintFound
  \/ GetPhysicalDeviceProperties
  \/ DeviceFormat
  \/ DevicePrint
  \/ DestroyInstance
  \/ SanityOk

Spec == Init /\ [][Next]_vars

\* The program is the only process and runs to completion.
LiveSpec == Init /\ [][Next]_vars /\ WF_vars(Next)

\* ------------------------------------------------------ reading the history
CallsOf(fn) == {k \in 1..Len(calls) : calls[k].fn = fn}
NumCalls(fn) == Cardinality(CallsOf(fn))
Ended == pc \in {"exited", "crashed"}
CreateSucceeded == \E k \in CallsOf("vkCreateInstance") : calls[k].ret = VK_SUCCESS
CreateFailed == \E k \in CallsOf("vkCreateInstance") : calls[k].ret # VK_SUCCESS
\* The count call passes a null destination, the fill call a buffer.
CountCalls == {k \in CallsOf("vkEnumeratePhysicalDevices") : calls[k].bufsize < 0}
FillCalls == {k \in CallsOf("vkEnumeratePhysicalDevices") : calls[k].bufsize >= 0}
CountRejected == \E k \in CountCalls : calls[k].ret # VK_SUCCESS \/ calls[k].cnt = 0
CountAccepted == \E k \in CountCalls : calls[k].ret = VK_SUCCESS /\ calls[k].cnt > 0
IsDeviceLine(line) == line.fmt = "  - %s | api %s | driver 0x%x | deviceID 0x%04x"
IsBannerLine(line) == line.fmt = "[vk] Loader supports: Vulkan %s"
DeviceLines == SelectSeq(out, IsDeviceLine)

\* C1: whenever vkCreateInstance succeeded, vkDestroyInstance has been called
\* exactly once by the time the process ends, and never more than once.
C1_DestroyedExactlyOnce ==
  /\ NumCalls("vkDestroyInstance") <= 1
  /\ (Ended /\ CreateSucceeded) => (NumCalls("vkDestroyInstance") = 1 /\ ctx = "Terminated")

\* C2: a failing vkCreateInstance puts its status on standard error, ends
\* the process with code 1, and no enumeration, describe or destroy call is made.
C2_CreateFailure ==
  \A k \in CallsOf("vkCreateInstance") :
    calls[k].ret # VK_SUCCESS =>
      /\ pc = "exited"
      /\ exit_code = 1
      /\ Len(err) = 1
      /\ err[1].fmt = "[vk] vkCreateInstance failed: %d"
      /\ err[1].args = <<FormatD(calls[k].ret)>>
      /\ NumCalls("vkEnumeratePhysicalDevices") = 0
      /\ NumCalls("vkGetPhysicalDeviceProperties") = 0
      /\ NumCalls("vkDestroyInstance") = 0
      /\ ctx = "Uninitialized"

C2_Witness ==
  /\ pc = "exited"
  /\ \E k \in CallsOf("vkCreateInstance") : calls[k].ret = 0 - 3
  /\ err[1].args = <<(<<"-", "3">>)>>

\* C3: a count call that fails or reports 0 devices is answered the same way
\* in both cases: one diagnostic with status and count on standard error, the
\* instance destroyed, exit code 1, no fill call, no buffer, no describe call.
C3_EnumerationFailure ==
  \A k \in CountCalls :
    ((calls[k].ret # VK_SUCCESS \/ calls[k].cnt = 0) /\ pc # "L48") =>
      /\ pc = "exited"
      /\ exit_code = 1
      /\ Len(err) = 1
      /\ err[1].fmt = "[vk] No physical devices found (res=%d, count=%u)"
      /\ err[1].args = <<FormatD(calls[k].ret), FormatU(calls[k].cnt)>>
      /\ NumCalls("vkDestroyInstance") = 1
      /\ ctx = "Terminated"
      /\ FillCalls = {}
      /\ physical_devices = <<>>
      /\ NumCalls("vkGetPhysicalDeviceProperties") = 0
      /\ Len(DeviceLines) = 0

\* Both cases of C3 are reached: a failure status, and success with count 0.
C3_Witness ==
  /\ pc = "exited"
  /\ \E k \in CountCalls : calls[k].ret = VK_SUCCESS /\ calls[k].cnt = 0
  /\ NumCalls("vkDestroyInstance") = 1

\* C4: the process ends with 0 or 1 only; with 0 only when devices were
\* found and listed; with 1 whenever instance creation failed or an
\* enumeration call failed or returned zero devices.
C4_ExitCodes ==
  Ended =>
    /\ exit_code \in {0, 1}
    /\ exit_code = 0 => (Len(DeviceLines) >= 1 /\ populated # {})
    /\ (CreateFailed \/ \E k \in CallsOf("vkEnumeratePhysicalDevices") : calls[k].ret \in DriverErrors \/ calls[k].cnt = 0) => exit_code = 1

\* C5: every vkGetPhysicalDeviceProperties call is given a handle that the
\* fill call wrote, while the instance is live.
C5_DescribeValid ==
  \A k \in CallsOf("vkGetPhysicalDeviceProperties") : calls[k].handle \in populated /\ calls[k].live

C7_LoaderVersion ==
  /\ NumCalls("vkEnumerateInstanceVersion") <= 1
  /\ pc \notin {"L17", "L20"} =>
       /\ pc = "L24" => exit_code = NotExited
       /\ loader_version >= VK_MAKE_VERSION(1, 0, 0)
       /\ ~enumerate_instance_version_fn => (NumCalls("vkEnumerateInstanceVersion") = 0 /\ loader_version = VK_MAKE_VERSION(1, 0, 0))
       /\ enumerate_instance_version_fn =>
            /\ NumCalls("vkEnumerateInstanceVersion") = 1
            /\ \A k \in CallsOf("vkEnumerateInstanceVersion") : loader_version = (IF calls[k].cnt = NoWrite THEN VK_MAKE_VERSION(1, 0, 0) ELSE calls[k].cnt)
       /\ Len(printed) >= 1 => printed[1] = loader_version

C7_Witness ==
  /\ pc = "L27"
  /\ enumerate_instance_version_fn
  /\ loader_version = VK_MAKE_VERSION(1, 3, 280)
  /\ IsBannerLine(out[1])

C7_WitnessUnresolved ==
  /\ pc = "L27"
  /\ ~enumerate_instance_version_fn
  /\ loader_version = VK_MAKE_VERSION(1, 0, 0)

\* C8: the instance goes Uninitialized -> ContextLive -> Terminated and no
\* other way; vkCreateInstance is called at most once, always asking for
\* version 1.1; every run ends.
LifecycleStep ==
  \/ ctx' = ctx
  \/ ctx = "Uninitialized" /\ ctx' = "ContextLive"
  \/ ctx = "ContextLive" /\ ctx' = "Terminated"

CreateOnceAt11 ==
  /\ NumCalls("vkCreateInstance") <= 1
  /\ \A k \in CallsOf("vkCreateInstance") : calls[k].cnt = VK_MAKE_VERSION(1, 1, 0) /\ app_info_apiVersion = VK_MAKE_VERSION(1, 1, 0)

C8_Lifecycle ==
  /\ [][LifecycleStep]_vars
  /\ [](CreateOnceAt11)
  /\ <>Ended

C8_Witness ==
  /\ pc = "exited"
  /\ ctx = "Terminated"
  /\ exit_code = 0
  /\ NumCalls("vkCreateInstance") = 1

\* C9: the count call comes first and passes a null destination; the fill
\* call is made only after a count call that succeeded with count > 0, is
\* made exactly once in that case, and its buffer has exactly that count.
C9_TwoCallConvention ==
  /\ Cardinality(CountCalls) <= 1
  /\ Cardinality(FillCalls) <= 1
  /\ \A f \in FillCalls : \E c \in CountCalls :
       /\ c < f
       /\ calls[c].ret = VK_SUCCESS
       /\ calls[c].cnt > 0
       /\ calls[f].bufsize = calls[c].cnt
       /\ Len(physical_devices) = calls[c].cnt
       /\ calls[f].cnt <= calls[f].bufsize
  /\ (CountAccepted /\ pc # "L48") => Cardinality(FillCalls) = 1
  /\ CountRejected => FillCalls = {}

C9_Witness ==
  /\ pc = "L58"
  /\ \E f \in FillCalls : calls[f].bufsize = 2 /\ calls[f].ret = VK_SUCCESS

\* Reading a version text back: three decimal fields separated by two dots.
DigitVal(c) == CHOOSE d \in 0..9 : Digits[d + 1] = c
IsDigit(c) == \E d \in 0..9 : Digits[d + 1] = c

RECURSIVE ParseU(_)
ParseU(s) == IF s = <<>> THEN 0 ELSE 10 * ParseU(SubSeq(s, 1, Len(s) - 1)) + DigitVal(s[Len(s)])

Dots(s) == {k \in 1..Len(s) : s[k] = "."}
IsVersionText(s) ==
  /\ Cardinality(Dots(s)) = 2
  /\ \A k \in 1..Len(s) : k \in Dots(s) \/ IsDigit(s[k])
  /\ 1 \notin Dots(s) /\ Len(s) \notin Dots(s)
  /\ \A k \in Dots(s) : k + 1 \notin Dots(s)

ParseVersion(s) ==
  LET d1 == CHOOSE k \in Dots(s) : \A j \in Dots(s) : k <= j
      d2 == CHOOSE k \in Dots(s) : \A j \in Dots(s) : k >= j
  IN <<ParseU(SubSeq(s, 1, d1 - 1)), ParseU(SubSeq(s, d1 + 1, d2 - 1)), ParseU(SubSeq(s, d2 + 1, Len(s)))>>

IsVersionLine(line) == IsBannerLine(line) \/ IsDeviceLine(line)
VersionArg(line) == IF IsBannerLine(line) THEN line.args[1] ELSE line.args[2]
VersionLines == SelectSeq(out, IsVersionLine)
Components(v) == <<v \div 4194304, (v \div 4096) % 1024, v % 4096>>

\* C10: every version text on standard output reads back as the major, minor
\* and patch of the value that was given to ApiVersionToStr for that line,
\* and the buffer still holds that text when its printf runs.
C10_VersionStrings ==
  /\ Len(VersionLines) = Len(printed)
  /\ \A k \in 1..Len(VersionLines) :
       /\ IsVersionText(VersionArg(VersionLines[k]))
       /\ ParseVersion(VersionArg(VersionLines[k])) = Components(printed[k])
  /\ pc \in {"L24p", "L65p"} => (IsVersionText(buf) /\ ParseVersion(buf) = Components(passed))

C10_Witness ==
  /\ pc = "exited"
  /\ Len(VersionLines) = 3
  /\ VersionArg(VersionLines[2]) # VersionArg(VersionLines[3])
  /\ VersionArg(VersionLines[1]) = <<"1", ".", "3", ".", "2", "8", "0">>

====
